---- MODULE Spec2Model ----
(***************************************************************************)
(* Detection-and-scoring pipeline of the Token-Data-Processor:             *)
(*   - the six STE detectors' _calculate_score strategies,                 *)
(*   - ContractCodeAnalyzer.analyze (aggregation of the detector scores),  *)
(*   - ContractCodeAnalyzer._preprocess_code and the detectors' position   *)
(*     resolution on concrete source text,                                 *)
(*   - ContractAnalyzer._merge_duplicate_findings and the reports built    *)
(*     from it,                                                            *)
(*   - TokenDataProcessor.process.                                         *)
(*                                                                         *)
(* Scores are Python floats in the source.  A detector score s is held as  *)
(* the exact rational s * Unit; the risk score, whose rounding matters, is *)
(* computed on the bits of the doubles.                                    *)
(***************************************************************************)
EXTENDS Integers, Sequences, FiniteSets, TLC

VARIABLES
    pc,                    \* position of the operation being executed
    \* --- one detector's _calculate_score --------------------------------
    ste,                   \* the detector whose strategy is applied
    matches,               \* its hit list: records [pattern_name, score]
    final_score,           \* value returned by _calculate_score (x Unit)
    \* --- ContractCodeAnalyzer.analyze -----------------------------------
    analyzers,             \* self.analyzers: the detector list, in run order
    idx,                   \* number of loop iterations done
    results,               \* results list
    total_risk_score,      \* accumulator (x Unit)
    max_individual_score,  \* accumulator (x Unit)
    report,                \* the returned report
    \* --- source text: _preprocess_code and a detector's analyze ----------
    contract_code,         \* the source handed to ContractCodeAnalyzer.analyze
    preprocessed_code,     \* its comment-stripped copy
    original_code,         \* the detector's original_code argument
    text_patterns,         \* the detector's self.patterns, in dict order
    \* --- ContractAnalyzer: findings and their merge ---------------------
    source_lines,          \* the lines of the analysed contract
    findings,              \* report.all_findings
    merged_findings,       \* result of _merge_duplicate_findings
    summary,               \* the "summary" entry of the returned report
    \* --- TokenDataProcessor.process ------------------------------------
    input_data,            \* the loaded input record
    use_new_architecture,  \* the flag of process
    analysis_result,       \* AnalysisReport or legacy dict handed to generate_result
    process_result         \* what process returns, or the exception it raises

scoreVars == <<ste, matches, final_score>>
aggVars   == <<analyzers, idx, results, total_risk_score, max_individual_score, report>>
textVars  == <<contract_code, preprocessed_code, original_code, text_patterns>>
mergeVars == <<source_lines, findings, merged_findings, summary>>
procVars  == <<input_data, use_new_architecture, analysis_result, process_result>>
vars      == <<pc, scoreVars, aggVars, textVars, mergeVars, procVars>>

----------------------------------------------------------------------------
(* Bounds *)

MaxHits == 3       \* longest hit list handed to _calculate_score
MaxAggHits == 2    \* longest hit list of one detector inside analyze
MaxRot == 5        \* rotations of the detector list tried in SpecOrder
MaxTokens == 4     \* longest source text, in tokens
MaxLines == 3      \* most lines of a contract in SpecMerge
MaxFindings == 2   \* most findings the patterns report in SpecMerge

----------------------------------------------------------------------------
(* Rule tables: the "score" of each entry of self.patterns, in dict order *)

STE_IDS == <<"STE0101_1", "STE0101_2", "STE0101_3", "STE0103", "STE0104", "STE0105">>

Weights_STE0101_1 == <<100, 80, 70, 60, 50, 40>>
Weights_STE0101_2 == <<100, 90, 80, 75, 60, 50, 40>>
Weights_STE0101_3 == <<100, 90, 80, 70, 60, 40>>
Weights_STE0103   == <<100, 90, 85, 80, 75, 70, 60, 40>>
Weights_STE0104   == <<100, 90, 85, 80, 75, 70, 60, 40>>
Weights_STE0105   == <<100, 95, 90, 85, 80, 70, 60, 50>>

patterns(d) ==
    CASE d = "STE0101_1" -> Weights_STE0101_1
      [] d = "STE0101_2" -> Weights_STE0101_2
      [] d = "STE0101_3" -> Weights_STE0101_3
      [] d = "STE0103"   -> Weights_STE0103
      [] d = "STE0104"   -> Weights_STE0104
      [] d = "STE0105"   -> Weights_STE0105

\* scoring_logic["method"] of each detector
scoring_method(d) ==
    CASE d = "STE0101_1" -> "weighted_max"
      [] d = "STE0101_2" -> "additive_capped"
      [] d = "STE0101_3" -> "weighted_max"
      [] d = "STE0103"   -> "risk_accumulation"
      [] d = "STE0104"   -> "severity_based"
      [] d = "STE0105"   -> "risk_weighted"

\* scoring_logic entries
decay_den == 5                 \* decay_factor 0.2 = 1 / 5
base_score_STE0103 == 20
max_score_STE0103 == 100
base_score_STE0105 == 30

\* One unit of score is 1 / Unit; Unit is divisible by 5, 10 and 1..8, the
\* denominators the strategies produce.
Unit == 8 * 3 * 5 * 7

\* A hit as appended by a detector's analyze: rule r of detector d.
Match(d, r) == [pattern_name |-> r, score |-> patterns(d)[r]]

----------------------------------------------------------------------------
(* Helpers that stand for Python builtins *)

Min(a, b) == IF a <= b THEN a ELSE b
Max(a, b) == IF a >= b THEN a ELSE b

RECURSIVE SumSeq(_)
SumSeq(s) == IF s = <<>> THEN 0 ELSE Head(s) + SumSeq(Tail(s))

RECURSIVE MaxSeq(_)
\* max(...) over a non-empty sequence of numbers
MaxSeq(s) == IF Len(s) = 1 THEN s[1] ELSE Max(Head(s), MaxSeq(Tail(s)))

Scores(ms) == [i \in 1..Len(ms) |-> ms[i].score]
PatternNames(ms) == {ms[i].pattern_name : i \in 1..Len(ms)}

RECURSIVE InsertDesc(_, _)
InsertDesc(x, s) ==
    IF s = <<>> THEN <<x>>
    ELSE IF x > Head(s) THEN <<x>> \o s
    ELSE <<Head(s)>> \o InsertDesc(x, Tail(s))

RECURSIVE SortedDesc(_)
\* sorted(..., reverse=True) on a sequence of numbers
SortedDesc(s) == IF s = <<>> THEN <<>> ELSE InsertDesc(Head(s), SortedDesc(Tail(s)))

RECURSIVE SetToDesc(_)
\* sorted(set, reverse=True)
SetToDesc(S) ==
    IF S = {} THEN <<>>
    ELSE LET m == CHOOSE x \in S : \A y \in S : y <= x
         IN  <<m>> \o SetToDesc(S \ {m})

----------------------------------------------------------------------------
(* The six _calculate_score methods; results are scaled by Unit *)

RECURSIVE DecaySum(_, _)
\* the enumerate loop of weighted_max: first element whole, the rest * 0.2
DecaySum(sorted, i) ==
    IF i > Len(sorted) THEN 0
    ELSE (IF i = 1 THEN sorted[i] * Unit ELSE (sorted[i] * Unit) \div decay_den)
         + DecaySum(sorted, i + 1)

\* weighted_max without the sort: the first hit of the list counts whole
_calculate_score_STE0101_1_unsorted(ms) ==
    IF ms = <<>> THEN 0
    ELSE Min(100 * Unit, DecaySum(Scores(ms), 1))

_calculate_score_STE0101_1(ms) ==
    IF ms = <<>> THEN 0
    ELSE Min(100 * Unit, DecaySum(SortedDesc(Scores(ms)), 1))

\* additive_capped without the cap
_calculate_score_STE0101_2_uncapped(ms) ==
    IF ms = <<>> THEN 0
    ELSE SumSeq(Scores(ms)) * Unit

\* additive_capped taking the largest hit instead of the sum
_calculate_score_STE0101_2_max(ms) ==
    IF ms = <<>> THEN 0
    ELSE Min(100 * Unit, MaxSeq(Scores(ms)) * Unit)

_calculate_score_STE0101_2(ms) ==
    IF ms = <<>> THEN 0
    ELSE Min(100 * Unit, SumSeq(Scores(ms)) * Unit)

_calculate_score_STE0101_3(ms) ==
    IF ms = <<>> THEN 0
    ELSE Min(100 * Unit, MaxSeq(Scores(ms)) * Unit)

RECURSIVE DiminishSum(_, _)
\* score += pattern_score * (1.0 / (i + 1)) over the sorted distinct scores
DiminishSum(sorted, i) ==
    IF i > Len(sorted) THEN 0
    ELSE (sorted[i] * Unit) \div i + DiminishSum(sorted, i + 1)

\* risk_accumulation without set(): equal scores are added again
_calculate_score_STE0103_no_set(ms) ==
    IF ms = <<>> THEN 0
    ELSE Min(max_score_STE0103 * Unit,
             base_score_STE0103 * Unit + DiminishSum(SortedDesc(Scores(ms)), 1))

_calculate_score_STE0103(ms) ==
    IF ms = <<>> THEN 0
    ELSE LET unique_scores == {ms[i].score : i \in 1..Len(ms)}
         IN  Min(max_score_STE0103 * Unit,
                 base_score_STE0103 * Unit + DiminishSum(SetToDesc(unique_scores), 1))

\* severity_based counting hits instead of distinct rules
_calculate_score_STE0104_per_hit(ms) ==
    IF ms = <<>> THEN 0
    ELSE LET score == MaxSeq(Scores(ms)) * Unit
             unique_patterns == Len(ms)
         IN  Min(100 * Unit,
                 IF unique_patterns > 1
                 THEN (score * (10 + (unique_patterns - 1))) \div 10
                 ELSE score)

_calculate_score_STE0104(ms) ==
    IF ms = <<>> THEN 0
    ELSE LET score == MaxSeq(Scores(ms)) * Unit
             unique_patterns == Cardinality(PatternNames(ms))
         IN  Min(100 * Unit,
                 IF unique_patterns > 1
                 THEN (score * (10 + (unique_patterns - 1))) \div 10
                 ELSE score)

\* risk_weighted without the early return: max(..., default=0) on no hits
_calculate_score_STE0105_no_guard(ms) ==
    LET max_score == (IF ms = <<>> THEN 0 ELSE MaxSeq(Scores(ms))) * Unit
        risk_factor == Cardinality(PatternNames(ms))
    IN  Min(100 * Unit,
            base_score_STE0105 * Unit + (max_score * (10 + risk_factor)) \div 10)

\* risk_weighted with the bonus of severity_based: 10% per additional rule
_calculate_score_STE0105_additional(ms) ==
    IF ms = <<>> THEN 0
    ELSE LET max_score == MaxSeq(Scores(ms)) * Unit
             risk_factor == Cardinality(PatternNames(ms)) - 1
         IN  Min(100 * Unit,
                 base_score_STE0105 * Unit + (max_score * (10 + risk_factor)) \div 10)

_calculate_score_STE0105(ms) ==
    IF ms = <<>> THEN 0
    ELSE LET max_score == MaxSeq(Scores(ms)) * Unit
             risk_factor == Cardinality(PatternNames(ms))
         IN  Min(100 * Unit,
                 base_score_STE0105 * Unit + (max_score * (10 + risk_factor)) \div 10)

_calculate_score(d, ms) ==
    CASE d = "STE0101_1" -> _calculate_score_STE0101_1(ms)
      [] d = "STE0101_2" -> _calculate_score_STE0101_2(ms)
      [] d = "STE0101_3" -> _calculate_score_STE0101_3(ms)
      [] d = "STE0103"   -> _calculate_score_STE0103(ms)
      [] d = "STE0104"   -> _calculate_score_STE0104(ms)
      [] d = "STE0105"   -> _calculate_score_STE0105(ms)

----------------------------------------------------------------------------
(* Specification SpecScore: one call of a detector's _calculate_score *)

NoScore == 0 - 1

\* every hit list of at most n hits drawn from the rule table of detector d
HitLists(d, n) ==
    UNION { { [i \in 1..k |-> Match(d, f[i])] : f \in [1..k -> 1..Len(patterns(d))] }
            : k \in 0..n }

DetectorIds == {STE_IDS[i] : i \in 1..Len(STE_IDS)}

NoText == <<"None">>

TextIdle ==
    /\ contract_code = NoText
    /\ preprocessed_code = NoText
    /\ original_code = NoText
    /\ text_patterns = <<>>

NoSummary == [total_issues |-> 0 - 1]

MergeIdle ==
    /\ source_lines = <<>>
    /\ findings = <<>>
    /\ merged_findings = <<>>
    /\ summary = NoSummary

NoResult == [outcome |-> "none"]

ProcIdle ==
    /\ input_data = <<>>
    /\ use_new_architecture = FALSE
    /\ analysis_result = NoResult
    /\ process_result = NoResult

AggIdle ==
    /\ analyzers = <<>>
    /\ idx = 0
    /\ results = <<>>
    /\ total_risk_score = 0
    /\ max_individual_score = 0
    /\ report = [overall_risk |-> "none"]

ScoreIdle ==
    /\ ste = "none"
    /\ matches = <<>>
    /\ final_score = NoScore

InitScore ==
    /\ pc = "score_call"
    /\ ste \in DetectorIds
    /\ matches \in HitLists(ste, MaxHits)
    /\ final_score = NoScore
    /\ AggIdle
    /\ TextIdle
    /\ MergeIdle
    /\ ProcIdle

\* final_score = self._calculate_score(matches)
CalculateScore ==
    /\ pc = "score_call"
    /\ final_score' = _calculate_score(ste, matches)
    /\ pc' = "score_done"
    /\ UNCHANGED <<ste, matches, aggVars, textVars, mergeVars, procVars>>

NextScore == CalculateScore

SpecScore == InitScore /\ [][NextScore]_vars

----------------------------------------------------------------------------
(* ContractCodeAnalyzer: risk bands, rounding, analyze *)

\* self.risk_levels, in dict order
risk_levels ==
    << [min_score |-> 0,  max_score |-> 20,  risk_level |-> "LOW_RISK"],
       [min_score |-> 21, max_score |-> 40,  risk_level |-> "MEDIUM_RISK"],
       [min_score |-> 41, max_score |-> 60,  risk_level |-> "HIGH_RISK"],
       [min_score |-> 61, max_score |-> 80,  risk_level |-> "VERY_HIGH_RISK"],
       [min_score |-> 81, max_score |-> 100, risk_level |-> "CRITICAL_RISK"] >>

RECURSIVE RiskScan(_, _, _)
RiskScan(num, den, i) ==
    IF i > Len(risk_levels) THEN "UNKNOWN"
    ELSE IF risk_levels[i].min_score * den <= num /\ num <= risk_levels[i].max_score * den
         THEN risk_levels[i].risk_level
         ELSE RiskScan(num, den, i + 1)

\* _get_risk_level(score) for the score num / den
_get_risk_level(num, den) == RiskScan(num, den, 1)

\* round(num / den, 2) in hundredths, ties to even (num >= 0, den > 0)
Round2(num, den) ==
    LET q == (100 * num) \div den
        r == (100 * num) % den
    IN  IF 2 * r > den THEN q + 1
        ELSE IF 2 * r < den THEN q
        ELSE IF q % 2 = 0 THEN q ELSE q + 1

\* The hit lists a detector can hand back inside analyze: up to MaxAggHits
\* hits of its lowest-weight rule, or one hit of its highest-weight rule.
AggHitLists(d) ==
    { [i \in 1..k |-> Match(d, Len(patterns(d)))] : k \in 0..MaxAggHits }
    \cup { <<Match(d, 1)>> }

\* result = analyzer.analyze(preprocessed_code): the dict a detector returns
DetectorResult(d, ms) ==
    [ste_id |-> d, score |-> _calculate_score(d, ms), matches |-> ms, error |-> FALSE]

\* the dict appended in the except branch
ErrorResult(d) ==
    [ste_id |-> d, score |-> 0, matches |-> <<>>, error |-> TRUE]

\* max_individual_score = score: the last detector wins
TrackMax_last(cur, score) == score

\* max_individual_score = max(max_individual_score, score)
TrackMax(cur, score) == Max(cur, score)

\* the divisor of the average: only the detectors that returned
AverageCount_succeeded(as, rs) == Max(1, Cardinality({i \in 1..Len(rs) : ~rs[i].error}))

\* the divisor of the average: len(self.analyzers)
AverageCount(as, rs) == Len(as)

\* loop body, try branch: the detector returns
AnalyzerReturns ==
    /\ pc = "analyze_loop"
    /\ idx < Len(analyzers)
    /\ \E ms \in AggHitLists(analyzers[idx + 1]) :
          LET result == DetectorResult(analyzers[idx + 1], ms)
          IN  /\ results' = Append(results, result)
              /\ total_risk_score' = total_risk_score + result.score
              /\ max_individual_score' = TrackMax(max_individual_score, result.score)
    /\ idx' = idx + 1
    /\ UNCHANGED <<pc, analyzers, report, scoreVars, textVars, mergeVars, procVars>>

\* loop body, except branch: the detector raises
AnalyzerRaises ==
    /\ pc = "analyze_loop"
    /\ idx < Len(analyzers)
    /\ results' = Append(results, ErrorResult(analyzers[idx + 1]))
    /\ idx' = idx + 1
    /\ UNCHANGED <<pc, analyzers, total_risk_score, max_individual_score, report, scoreVars, textVars, mergeVars, procVars>>

\* 0.4 * max + 0.6 * average: the two weights swapped
OverallNum_swapped(mx, total, n) == 2 * n * mx + 3 * total

\* overall_score = max * 0.6 + (total / n) * 0.4, as a fraction over 5 * n * Unit
OverallNum(mx, total, n) == 3 * n * mx + 2 * total
OverallDen(n) == 5 * n * Unit

\* [r for r in results if lo <= r.get("score", 0) < hi]
ScoreBand(rs, lo, hi) ==
    SelectSeq(rs, LAMBDA r : lo * Unit <= r.score /\ r.score < hi * Unit)

\* the "summary" entry of the report
ReportSummary(rs) ==
    [ total_patterns_detected |-> SumSeq([i \in 1..Len(rs) |-> Len(rs[i].matches)]),
      critical_findings |-> ScoreBand(rs, 80, 101),
      high_risk_findings |-> ScoreBand(rs, 60, 80),
      medium_risk_findings |-> ScoreBand(rs, 40, 60) ]

\* after the loop: average, overall score, risk level, report
BuildReport ==
    /\ pc = "analyze_loop"
    /\ idx = Len(analyzers)
    /\ LET n == AverageCount(analyzers, results)
           overall_num == OverallNum(max_individual_score, total_risk_score, n)
       IN  report' = [ overall_score |-> Round2(overall_num, OverallDen(n)),
                       overall_risk |-> _get_risk_level(overall_num, OverallDen(n)),
                       max_individual_score |-> Round2(max_individual_score, Unit),
                       average_score |-> Round2(total_risk_score, n * Unit),
                       ste_results |-> results,
                       summary |-> ReportSummary(results) ]
    /\ pc' = "analyze_done"
    /\ UNCHANGED <<analyzers, idx, results, total_risk_score, max_individual_score, scoreVars, textVars, mergeVars, procVars>>

NextAnalyze == AnalyzerReturns \/ AnalyzerRaises \/ BuildReport

AnalyzeStart ==
    /\ pc = "analyze_loop"
    /\ idx = 0
    /\ results = <<>>
    /\ total_risk_score = 0
    /\ max_individual_score = 0
    /\ report = [overall_risk |-> "none"]
    /\ ScoreIdle
    /\ TextIdle
    /\ MergeIdle

\* self.analyzers as built by __init__
InitAnalyze ==
    /\ analyzers = STE_IDS
    /\ AnalyzeStart
    /\ ProcIdle

SpecAnalyze == InitAnalyze /\ [][NextAnalyze]_vars

\* the detector list rotated by k places, and its reversal
Rotate(s, k) == [i \in 1..Len(s) |-> s[((i - 1 + k) % Len(s)) + 1]]
Reverse(s) == [i \in 1..Len(s) |-> s[Len(s) + 1 - i]]
Orders == {Rotate(STE_IDS, k) : k \in 0..MaxRot} \cup {Reverse(Rotate(STE_IDS, k)) : k \in 0..MaxRot}

InitOrder ==
    /\ analyzers \in Orders
    /\ AnalyzeStart
    /\ ProcIdle

SpecOrder == InitOrder /\ [][NextAnalyze]_vars

----------------------------------------------------------------------------
(* Source text.  A text is a sequence of characters; "CR" and "LF" stand   *)
(* for \r and \n.  Offsets are 0-based as in Python.                       *)

CRLF == <<"CR", "LF">>

\* s[a:b]
Slice(s, a, b) == SubSeq(s, a + 1, b)

\* s[i:i+len(sub)] == sub
StartsAt(s, sub, i) ==
    /\ i >= 0
    /\ i + Len(sub) <= Len(s)
    /\ SubSeq(s, i + 1, i + Len(sub)) = sub

\* s.find(sub, from): the lowest offset >= from where sub starts, or -1
Find(s, sub, from) ==
    LET at == {i \in from..(Len(s) - Len(sub)) : StartsAt(s, sub, i)}
    IN  IF at = {} THEN 0 - 1 ELSE CHOOSE i \in at : \A j \in at : i <= j

\* s.rfind(sub, 0, to): the highest offset where sub lies inside s[0:to], or -1
RFind(s, sub, to) ==
    LET at == {i \in 0..(to - Len(sub)) : StartsAt(s, sub, i)}
    IN  IF at = {} THEN 0 - 1 ELSE CHOOSE i \in at : \A j \in at : i >= j

RECURSIVE CountFrom(_, _, _)
CountFrom(s, sub, from) ==
    LET i == Find(s, sub, from)
    IN  IF i = 0 - 1 THEN 0 ELSE 1 + CountFrom(s, sub, i + Len(sub))

\* s.count(sub): the number of non-overlapping occurrences
Count(s, sub) == CountFrom(s, sub, 0)

\* the characters of t at the (1-based) positions listed in keep
Select(t, keep) == [k \in 1..Len(keep) |-> t[keep[k]]]

\* first position >= i holding LF, or Len(t) + 1: where '$' matches
EndOfLine(t, i) ==
    LET lf == {j \in i..Len(t) : t[j] = "LF"}
    IN  IF lf = {} THEN Len(t) + 1 ELSE CHOOSE j \in lf : \A k \in lf : j <= k

RECURSIVE LineCommentKeep(_, _)
\* re.sub(r'//.*?$', '', t, flags=re.MULTILINE): the positions that stay.
\* '.' matches every character but LF, so a CR before the LF goes too.
LineCommentKeep(t, i) ==
    IF i > Len(t) THEN <<>>
    ELSE IF i < Len(t) /\ t[i] = "/" /\ t[i + 1] = "/"
         THEN LineCommentKeep(t, EndOfLine(t, i))
         ELSE <<i>> \o LineCommentKeep(t, i + 1)

\* positions j >= i + 2 where a closing */ starts
BlockEnds(t, i) == {j \in (i + 2)..(Len(t) - 1) : t[j] = "*" /\ t[j + 1] = "/"}

RECURSIVE BlockCommentKeep(_, _)
\* re.sub(r'/\*.*?\*/', '', t, flags=re.DOTALL): the positions that stay.
\* A /* with no */ after it matches nothing and stays.
BlockCommentKeep(t, i) ==
    IF i > Len(t) THEN <<>>
    ELSE IF i < Len(t) /\ t[i] = "/" /\ t[i + 1] = "*" /\ BlockEnds(t, i) # {}
         THEN LET j == CHOOSE j \in BlockEnds(t, i) : \A k \in BlockEnds(t, i) : j <= k
              IN  BlockCommentKeep(t, j + 2)
         ELSE <<i>> \o BlockCommentKeep(t, i + 1)

\* ContractCodeAnalyzer._preprocess_code
_preprocess_code(t) ==
    LET code == Select(t, LineCommentKeep(t, 1))
    IN  Select(code, BlockCommentKeep(code, 1))

----------------------------------------------------------------------------
(* A detector's analyze on text.  The rule table is configuration; the     *)
(* text detector is built with rules whose regex is a literal text.        *)

\* Rules whose regex is a literal text, one whose regex "(" does not
\* compile (re.finditer raises re.error for it), and one whose regex
\* x.*m holds the wildcard ".*", which under re.DOTALL runs over any text.
rule_m == [pattern_name |-> "rule_m", regex |-> <<"m">>, score |-> 100]
rule_xm == [pattern_name |-> "rule_xm", regex |-> <<"x", "m">>, score |-> 80]
rule_bad == [pattern_name |-> "rule_bad", regex |-> <<"(">>, score |-> 60]
rule_gap == [pattern_name |-> "rule_gap", regex |-> <<"x", ".*", "m">>, score |-> 60]

\* the rule tables a detector is built with
RuleTables == { <<rule_m, rule_xm>>, <<rule_m, rule_bad, rule_xm>>, <<rule_gap>> }

Compiles(regex) == regex # <<"(">>

context_len == 30     \* characters of context taken on each side
prefix_len == 100     \* full_match[:100]
snippet_len == 200    \* matched_text[:200]

\* match.end() of the match of regex that starts at offset i, or -1 if none
\* starts there.  The wildcard is greedy: it runs up to the last place where
\* the rest of the regex still matches.
MatchAt(code, regex, i) ==
    LET wild == {k \in 1..Len(regex) : regex[k] = ".*"}
    IN  IF wild = {}
        THEN IF StartsAt(code, regex, i) THEN i + Len(regex) ELSE 0 - 1
        ELSE LET k == CHOOSE k \in wild : TRUE
                 head == SubSeq(regex, 1, k - 1)
                 tail == SubSeq(regex, k + 1, Len(regex))
                 ends == {j \in (i + Len(head))..(Len(code) - Len(tail)) : StartsAt(code, tail, j)}
             IN  IF StartsAt(code, head, i) /\ ends # {}
                 THEN (CHOOSE j \in ends : \A e \in ends : e <= j) + Len(tail)
                 ELSE 0 - 1

\* the lowest offset >= from where a match of regex starts, or -1
Search(code, regex, from) ==
    LET at == {i \in from..Len(code) : MatchAt(code, regex, i) # 0 - 1}
    IN  IF at = {} THEN 0 - 1 ELSE CHOOSE i \in at : \A j \in at : i <= j

RECURSIVE FindIter(_, _, _)
\* re.finditer(regex, code): the start offsets of the non-overlapping matches
FindIter(code, regex, from) ==
    LET i == Search(code, regex, from)
    IN  IF i = 0 - 1 THEN <<>> ELSE <<i>> \o FindIter(code, regex, MatchAt(code, regex, i))

\* line number and snippet of the offset pos in the text code_for_line_numbers
LineAndText(code_for_line_numbers, pos) ==
    LET text_before_match == Slice(code_for_line_numbers, 0, pos)
        found_start == RFind(code_for_line_numbers, CRLF, pos)
        line_start == IF found_start # 0 - 1 THEN found_start + 2 ELSE 0
        found_end == Find(code_for_line_numbers, CRLF, pos)
        line_end == IF found_end # 0 - 1 THEN found_end ELSE Len(code_for_line_numbers)
        line == Slice(code_for_line_numbers, line_start, line_end)
    IN  [ line_number |-> Count(text_before_match, CRLF) + 1,
          matched_text |-> Slice(line, 0, Min(snippet_len, Len(line))) ]

\* the strings searched for: with context, and the match prefix alone
ContextBefore(code, match_start) == Slice(code, Max(0, match_start - context_len), match_start)
ContextAfter(code, match_end) == Slice(code, match_end, Min(Len(code), match_end + context_len))
MatchPrefix(full_match) == Slice(full_match, 0, Min(prefix_len, Len(full_match)))

\* the two searches taken in the other order: the bare match text first
PickPosition_loose_first(original_match_pos, len_before, fallback_pos) ==
    IF fallback_pos # 0 - 1 THEN fallback_pos
    ELSE IF original_match_pos # 0 - 1 THEN original_match_pos + len_before
    ELSE 0 - 1

\* the offset the hit is resolved to: the context search if it found the
\* text (adjusted by the context length), else the fallback search, else -1
PickPosition(original_match_pos, len_before, fallback_pos) ==
    IF original_match_pos # 0 - 1 THEN original_match_pos + len_before
    ELSE IF fallback_pos # 0 - 1 THEN fallback_pos
    ELSE 0 - 1

\* the body of the finditer loop: the dict appended for one match
ResolveMatch(rule, code, code_for_line_numbers, match_start) ==
    LET match_end == MatchAt(code, rule.regex, match_start)
        full_match == Slice(code, match_start, match_end)
        context_before == ContextBefore(code, match_start)
        context_after == ContextAfter(code, match_end)
        search_with_context == context_before \o MatchPrefix(full_match) \o context_after
        original_match_pos == Find(code_for_line_numbers, search_with_context, 0)
        fallback_pos == Find(code_for_line_numbers, MatchPrefix(full_match), 0)
        pos == PickPosition(original_match_pos, Len(context_before), fallback_pos)
        where ==
            IF pos # 0 - 1
            THEN LineAndText(code_for_line_numbers, pos)
            ELSE [ line_number |-> 0 - 1,
                   matched_text |-> Slice(full_match, 0, Min(snippet_len, Len(full_match))) ]
    IN  [ pattern_name |-> rule.pattern_name,
          score |-> rule.score,
          matched_text |-> where.matched_text,
          line_number |-> where.line_number ]

RECURSIVE RuleMatches(_, _, _, _)
RuleMatches(rule, code, code_for_line_numbers, starts) ==
    IF starts = <<>> THEN <<>>
    ELSE <<ResolveMatch(rule, code, code_for_line_numbers, Head(starts))>>
         \o RuleMatches(rule, code, code_for_line_numbers, Tail(starts))

RECURSIVE AllMatches_abort(_, _, _)
\* the try around the whole loop: a rule that raises ends the scan
AllMatches_abort(r, code, code_for_line_numbers) ==
    IF r > Len(text_patterns) \/ ~Compiles(text_patterns[r].regex) THEN <<>>
    ELSE RuleMatches(text_patterns[r], code, code_for_line_numbers,
                     FindIter(code, text_patterns[r].regex, 0))
         \o AllMatches_abort(r + 1, code, code_for_line_numbers)

RECURSIVE AllMatches(_, _, _)
\* the loop over self.patterns; `except re.error` leaves the rule without
\* hits and the loop goes on
AllMatches(r, code, code_for_line_numbers) ==
    IF r > Len(text_patterns) THEN <<>>
    ELSE (IF Compiles(text_patterns[r].regex)
          THEN RuleMatches(text_patterns[r], code, code_for_line_numbers,
                           FindIter(code, text_patterns[r].regex, 0))
          ELSE <<>>)
         \o AllMatches(r + 1, code, code_for_line_numbers)

\* code_for_line_numbers = original_code if original_code else contract_code
CodeForLineNumbers(code, original) ==
    IF original = NoText \/ original = <<>> THEN code ELSE original

\* matches of analyze(contract_code, original_code)
AnalyzeMatches(code, original) == AllMatches(1, code, CodeForLineNumbers(code, original))

----------------------------------------------------------------------------
(* Specification SpecText: _preprocess_code, then one detector's analyze *)

\* "q" stands for the double quote that opens and closes a string literal
Tokens ==
    { <<"m">>, <<"x">>, <<"q">>, <<"LF">>, CRLF, <<"/", "*">>, <<"*", "/">>, <<"/", "/">> }

RECURSIVE Flatten(_)
Flatten(ts) == IF ts = <<>> THEN <<>> ELSE Head(ts) \o Flatten(Tail(ts))

\* every source text of at most n tokens
Sources(n) == UNION { {Flatten(ts) : ts \in [1..k -> Tokens]} : k \in 0..n }

InitText ==
    /\ pc = "text_start"
    /\ contract_code \in Sources(MaxTokens)
    /\ preprocessed_code = NoText
    /\ original_code = NoText
    /\ text_patterns \in RuleTables
    /\ ScoreIdle
    /\ AggIdle
    /\ MergeIdle
    /\ ProcIdle

\* preprocessed_code = self._preprocess_code(contract_code)
Preprocess ==
    /\ pc = "text_start"
    /\ preprocessed_code' = _preprocess_code(contract_code)
    /\ pc' = "preprocessed"
    /\ UNCHANGED <<contract_code, original_code, text_patterns, scoreVars, aggVars, mergeVars, procVars>>

\* analyze(contract_code, original_code) of the text detector, scoring as STE0101_1
DetectorAnalyze(code, original) ==
    /\ ste' = "STE0101_1"
    /\ matches' = AnalyzeMatches(code, original)
    /\ final_score' = _calculate_score_STE0101_1(matches')

\* result = analyzer.analyze(preprocessed_code), as ContractCodeAnalyzer.analyze calls it
AnalyzeInFullRun ==
    /\ pc = "preprocessed"
    /\ DetectorAnalyze(preprocessed_code, NoText)
    /\ pc' = "full_run_done"
    /\ UNCHANGED <<textVars, aggVars, mergeVars, procVars>>

\* analyzer.analyze(preprocessed_code, original_code): a caller that hands the original over
AnalyzeWithOriginal ==
    /\ pc = "preprocessed"
    /\ original_code' = contract_code
    /\ DetectorAnalyze(preprocessed_code, contract_code)
    /\ pc' = "with_original_done"
    /\ UNCHANGED <<contract_code, preprocessed_code, text_patterns, aggVars, mergeVars, procVars>>

NextText == Preprocess \/ AnalyzeInFullRun \/ AnalyzeWithOriginal

SpecText == InitText /\ [][NextText]_vars

----------------------------------------------------------------------------
(* Specification SpecSTE0104: STE0104_Analyzer.analyze on a text.  It takes *)
(* no original_code and computes the line from the text it scans.          *)

\* the body of the finditer loop of STE0104: the dict appended for one match
ResolveMatch_STE0104(rule, code, match_start) ==
    LET text_before_match == Slice(code, 0, match_start)
        full_match == Slice(code, match_start, MatchAt(code, rule.regex, match_start))
    IN  [ pattern_name |-> rule.pattern_name,
          score |-> rule.score,
          matched_text |-> Slice(full_match, 0, Min(snippet_len, Len(full_match))),
          line_number |-> Count(text_before_match, <<"LF">>)
                          + Count(text_before_match, CRLF) + 1 ]

RECURSIVE RuleMatches_STE0104(_, _, _)
RuleMatches_STE0104(rule, code, starts) ==
    IF starts = <<>> THEN <<>>
    ELSE <<ResolveMatch_STE0104(rule, code, Head(starts))>>
         \o RuleMatches_STE0104(rule, code, Tail(starts))

RECURSIVE AllMatches_STE0104(_, _)
\* the loop over self.patterns, with its `except re.error`
AllMatches_STE0104(r, code) ==
    IF r > Len(text_patterns) THEN <<>>
    ELSE (IF Compiles(text_patterns[r].regex)
          THEN RuleMatches_STE0104(text_patterns[r], code,
                                   FindIter(code, text_patterns[r].regex, 0))
          ELSE <<>>)
         \o AllMatches_STE0104(r + 1, code)

InitSTE0104 ==
    /\ pc = "ste0104_start"
    /\ contract_code \in Sources(MaxTokens)
    /\ preprocessed_code = NoText
    /\ original_code = NoText
    /\ text_patterns \in RuleTables
    /\ ScoreIdle
    /\ AggIdle
    /\ MergeIdle
    /\ ProcIdle

\* STE0104_Analyzer.analyze(contract_code)
AnalyzeSTE0104 ==
    /\ pc = "ste0104_start"
    /\ ste' = "STE0104"
    /\ matches' = AllMatches_STE0104(1, contract_code)
    /\ final_score' = _calculate_score_STE0104(matches')
    /\ pc' = "ste0104_done"
    /\ UNCHANGED <<textVars, aggVars, mergeVars, procVars>>

NextSTE0104 == AnalyzeSTE0104

SpecSTE0104 == InitSTE0104 /\ [][NextSTE0104]_vars

----------------------------------------------------------------------------
(* ContractAnalyzer: findings of the source-code patterns and their merge *)

None == "None"

\* What the two regex searches of _extract_function_name give on a line:
\* the name after "function", or the keyword constructor/fallback/receive,
\* or nothing.
LineKinds == {"function f", "function g", "constructor", "plain"}

DeclaredName(line) ==
    CASE line = "function f"  -> "f"
      [] line = "function g"  -> "g"
      [] line = "constructor" -> "constructor"
      [] OTHER                -> None

RECURSIVE ScanBack(_, _)
\* for i in range(line_number - 1, -1, -1), with i 0-based
ScanBack(lines, i) ==
    IF i < 0 THEN None
    ELSE IF DeclaredName(lines[i + 1]) # None THEN DeclaredName(lines[i + 1])
    ELSE ScanBack(lines, i - 1)

\* ContractAnalyzer._extract_function_name(contract_code, line_number)
_extract_function_name(lines, line_number) == ScanBack(lines, line_number - 1)

\* Finding(pattern_name=..., description=..., code_snippet=..., line_number=...)
\* as every pattern module builds it: function_name keeps its default.
LegacyFinding(pattern_name, line_number) ==
    [ pattern_name |-> pattern_name,
      line_number |-> line_number,
      function_name |-> None ]

\* the key without the line number: f"{finding.pattern_name}:{finding.function_name}"
MergeKey_no_line(finding) ==
    << finding.pattern_name,
       IF finding.function_name # None
       THEN <<finding.function_name>>
       ELSE <<None>> >>

\* f"{finding.pattern_name}:{finding.function_name or f'line_{finding.line_number}'}"
MergeKey(finding) ==
    << finding.pattern_name,
       IF finding.function_name # None
       THEN <<finding.function_name>>
       ELSE <<"line_", finding.line_number>> >>

Occurrence(finding) == [line_number |-> finding.line_number]

RECURSIVE MergeInto(_, _, _)
\* the loop of _merge_duplicate_findings; merged keeps dict insertion order
MergeInto(fs, i, merged) ==
    IF i > Len(fs) THEN merged
    ELSE LET key == MergeKey(fs[i])
             at == {k \in 1..Len(merged) : merged[k].key = key}
         IN  IF at # {}
             THEN LET k == CHOOSE k \in at : TRUE
                  IN  MergeInto(fs, i + 1,
                        [merged EXCEPT ![k].occurrences = Append(@, Occurrence(fs[i]))])
             ELSE MergeInto(fs, i + 1,
                        Append(merged, [ key |-> key,
                                         pattern_name |-> fs[i].pattern_name,
                                         function_name |-> fs[i].function_name,
                                         occurrences |-> <<Occurrence(fs[i])>> ]))

\* ContractAnalyzer._merge_duplicate_findings(findings)
_merge_duplicate_findings(fs) == MergeInto(fs, 1, <<>>)

PatternLabels == {"Blacklist System", "Hidden Minting"}

\* A dict is held as the sequence of its items [key, value], in insertion
\* order, which is the order its items() are iterated in.
Keys(counts) == {counts[i].key : i \in 1..Len(counts)}

\* counts.get(name, 0)
Get(counts, name) ==
    IF name \in Keys(counts)
    THEN counts[CHOOSE i \in 1..Len(counts) : counts[i].key = name].value
    ELSE 0

\* counts[name] = n: a new key goes to the end, a known key keeps its place
Put(counts, name, n) ==
    IF name \in Keys(counts)
    THEN [i \in 1..Len(counts) |->
            IF counts[i].key = name THEN [key |-> name, value |-> n] ELSE counts[i]]
    ELSE Append(counts, [key |-> name, value |-> n])

\* a slip: the count is set, not added to
Bump_overwrite(counts, name, n) == Put(counts, name, n)

\* counts[name] = counts.get(name, 0) + n
Bump(counts, name, n) == Put(counts, name, Get(counts, name) + n)

EmptyDict == <<>>

RECURSIVE CountFindings(_, _, _)
\* the loop of AnalysisReport.pattern_counts over self.all_findings
CountFindings(fs, i, counts) ==
    IF i > Len(fs) THEN counts
    ELSE CountFindings(fs, i + 1, Bump(counts, fs[i].pattern_name, 1))

\* AnalysisReport.pattern_counts
pattern_counts(fs) == CountFindings(fs, 1, EmptyDict)

\* AnalysisReport.total_issues
total_issues(fs) == Len(fs)

RECURSIVE CountOccurrences(_, _, _)
\* the loop of _generate_report over merged_findings
CountOccurrences(merged, i, counts) ==
    IF i > Len(merged) THEN counts
    ELSE CountOccurrences(merged, i + 1,
            Bump(counts, merged[i].pattern_name, Len(merged[i].occurrences)))

RECURSIVE SumOccurrences(_, _)
\* sum(len(finding['occurrences']) for finding in merged_findings)
SumOccurrences(merged, i) ==
    IF i > Len(merged) THEN 0
    ELSE Len(merged[i].occurrences) + SumOccurrences(merged, i + 1)

\* ContractAnalyzer._generate_report(findings, contract_code)
_generate_report(fs) ==
    LET merged == _merge_duplicate_findings(fs)
    IN  [ summary |-> [ total_issues |-> SumOccurrences(merged, 1),
                        pattern_counts |-> CountOccurrences(merged, 1, EmptyDict) ],
          findings |-> merged ]

\* ContractAnalyzer._convert_to_legacy_format(report)
_convert_to_legacy_format(fs) ==
    [ summary |-> [ total_issues |-> total_issues(fs),
                    pattern_counts |-> pattern_counts(fs) ],
      findings |-> _merge_duplicate_findings(fs) ]

InitMerge ==
    /\ pc = "patterns_running"
    /\ source_lines \in UNION { [1..k -> LineKinds] : k \in 1..MaxLines }
    /\ findings = <<>>
    /\ merged_findings = <<>>
    /\ summary = NoSummary
    /\ ScoreIdle
    /\ AggIdle
    /\ TextIdle
    /\ ProcIdle

\* a pattern module appends a finding for a match on some line
AppendFinding ==
    /\ pc = "patterns_running"
    /\ Len(findings) < MaxFindings
    /\ \E p \in PatternLabels, l \in 1..Len(source_lines) :
          findings' = Append(findings, LegacyFinding(p, l))
    /\ UNCHANGED <<pc, source_lines, merged_findings, summary, scoreVars, aggVars, textVars, procVars>>

\* return self._convert_to_legacy_format(report), whose first statement is
\* merged_findings = self._merge_duplicate_findings(report.all_findings)
MergeFindings ==
    /\ pc = "patterns_running"
    /\ merged_findings' = _convert_to_legacy_format(findings).findings
    /\ summary' = _convert_to_legacy_format(findings).summary
    /\ pc' = "merged"
    /\ UNCHANGED <<source_lines, findings, scoreVars, aggVars, textVars, procVars>>

\* self._generate_report(findings, contract_code)
GenerateReport ==
    /\ pc = "patterns_running"
    /\ merged_findings' = _generate_report(findings).findings
    /\ summary' = _generate_report(findings).summary
    /\ pc' = "report_generated"
    /\ UNCHANGED <<source_lines, findings, scoreVars, aggVars, textVars, procVars>>

NextMerge == AppendFinding \/ MergeFindings \/ GenerateReport

SpecMerge == InitMerge /\ [][NextMerge]_vars

----------------------------------------------------------------------------
(* Claims on _calculate_score (SpecScore) *)

\* C1: for each of the six detectors and every hit list drawn from its rule
\* table, _calculate_score returns a value s with 0 <= s <= 100.
C1_ScoreWithinRange ==
    pc = "score_done" => (0 <= final_score /\ final_score <= 100 * Unit)

\* several hits of weight 100 under the additive strategy: the cap is hit
C1_Witness ==
    /\ pc = "score_done"
    /\ ste = "STE0101_2"
    /\ Len(matches) >= 2
    /\ \A i \in 1..Len(matches) : matches[i].score = 100
    /\ final_score = 100 * Unit

\* C9: for every detector an empty hit list gives score exactly 0; the
\* configured base score (20 in STE0103, 30 in STE0105) is not added.
C9_EmptyHitListScoresZero ==
    (pc = "score_done" /\ matches = <<>>) => final_score = 0

C9_Witness ==
    /\ pc = "score_done"
    /\ matches = <<>>
    /\ ste = "STE0105"
    /\ final_score = 0

----------------------------------------------------------------------------
(* Claims on ContractCodeAnalyzer.analyze (SpecAnalyze, SpecOrder) *)

RiskTiers == {"LOW_RISK", "MEDIUM_RISK", "HIGH_RISK", "VERY_HIGH_RISK", "CRITICAL_RISK"}

ResultScores(rs) == [i \in 1..Len(rs) |-> rs[i].score]

\* C2: every overall score analyze can compute is mapped to exactly one of
\* the five risk tiers, and 20 -> LOW, 21 -> MEDIUM, 60 -> HIGH,
\* 61 -> VERY_HIGH, 80 -> VERY_HIGH, 81 -> CRITICAL.
C2_EveryScoreHasTier ==
    /\ pc = "analyze_done" => report.overall_risk \in RiskTiers
    /\ _get_risk_level(20, 1) = "LOW_RISK"
    /\ _get_risk_level(21, 1) = "MEDIUM_RISK"
    /\ _get_risk_level(60, 1) = "HIGH_RISK"
    /\ _get_risk_level(61, 1) = "VERY_HIGH_RISK"
    /\ _get_risk_level(80, 1) = "VERY_HIGH_RISK"
    /\ _get_risk_level(81, 1) = "CRITICAL_RISK"

\* C3: when a detector raises, every other detector still runs and a report
\* is returned; the failed detector is recorded with score 0, an error and no
\* matches, and counts as 0 in the maximum and in the average, which divides
\* by the number of detectors.
C3_FailedDetectorCountsAsZero ==
    pc = "analyze_done" =>
        LET rs == report.ste_results
        IN  /\ Len(rs) = Len(analyzers)
            /\ \A i \in 1..Len(rs) :
                  /\ rs[i].ste_id = analyzers[i]
                  /\ rs[i].error => (rs[i].score = 0 /\ rs[i].matches = <<>>)
                  /\ ~rs[i].error => rs[i].score = _calculate_score(rs[i].ste_id, rs[i].matches)
            /\ report.max_individual_score = Round2(MaxSeq(<<0>> \o ResultScores(rs)), Unit)
            /\ report.average_score = Round2(SumSeq(ResultScores(rs)), Len(analyzers) * Unit)

\* a detector failed, and a later detector still ran and scored
C3_Witness ==
    /\ pc = "analyze_done"
    /\ \E i, j \in 1..Len(report.ste_results) :
          /\ i < j
          /\ report.ste_results[i].error
          /\ ~report.ste_results[j].error
          /\ report.ste_results[j].score > 0

\* C4: overall_score = round(0.6 * max(detector scores)
\* + 0.4 * mean(detector scores over all detectors), 2), and it lies in [0,100].
C4_OverallScoreFormula ==
    pc = "analyze_done" =>
        LET sc == ResultScores(report.ste_results)
            n  == Len(analyzers)
        IN  /\ report.overall_score
                 = Round2(3 * n * MaxSeq(<<0>> \o sc) + 2 * SumSeq(sc), 5 * n * Unit)
            /\ 0 <= report.overall_score
            /\ report.overall_score <= 100 * 100

\* an overall score that needed the rounding, with differing detector scores
C4_Witness ==
    /\ pc = "analyze_done"
    /\ report.overall_score % 100 # 0
    /\ \E i, j \in 1..Len(report.ste_results) :
          0 < report.ste_results[i].score
          /\ report.ste_results[i].score < report.ste_results[j].score

\* the result dict of detector d in a results list
ResultOf(rs, d) == rs[CHOOSE i \in 1..Len(rs) : rs[i].ste_id = d]

RECURSIVE ListOrderTotals(_, _, _, _)
\* the accumulators [total, max] of the loop run over STE_IDS[i..] in list
\* order, each detector behaving as recorded in rs
ListOrderTotals(rs, i, total, mx) ==
    IF i > Len(STE_IDS) THEN [total |-> total, max |-> mx]
    ELSE LET r == ResultOf(rs, STE_IDS[i])
         IN  IF r.error THEN ListOrderTotals(rs, i + 1, total, mx)
             ELSE ListOrderTotals(rs, i + 1, total + r.score,
                                  IF r.score > mx THEN r.score ELSE mx)

\* C10: running the detectors in another order changes neither overall_score
\* nor overall_risk, also when some detectors fail.
C10_OrderIndependent ==
    pc = "analyze_done" =>
        LET t == ListOrderTotals(report.ste_results, 1, 0, 0)
            n == Len(STE_IDS)
        IN  /\ report.overall_score
                 = Round2(3 * n * t.max + 2 * t.total, 5 * n * Unit)
            /\ report.overall_risk
                 = _get_risk_level(3 * n * t.max + 2 * t.total, 5 * n * Unit)

\* a run in an order other than the list order, with a failed detector and
\* two different non-zero scores, the larger score seen first
C10_Witness ==
    /\ pc = "analyze_done"
    /\ analyzers # STE_IDS
    /\ \E i \in 1..Len(results) : results[i].error
    /\ \E i, j \in 1..Len(results) :
          i < j /\ results[j].score > 0 /\ results[i].score > results[j].score

----------------------------------------------------------------------------
(* Claims on _preprocess_code and position resolution (SpecText) *)

LF == <<"LF">>

Preprocessed == pc \in {"preprocessed", "full_run_done", "with_original_done"}
Resolved == pc \in {"full_run_done", "with_original_done"}

\* C5: the output of _preprocess_code has exactly as many lines as its
\* input, also when a /* ... */ comment spans several lines.
C5_LineCountPreserved ==
    Preprocessed => Count(preprocessed_code, LF) = Count(contract_code, LF)

\* for each character of _preprocess_code(t), its (1-based) position in t
KeptOrigin(t) ==
    LET k1 == LineCommentKeep(t, 1)
        k2 == BlockCommentKeep(Select(t, k1), 1)
    IN  [k \in 1..Len(k2) |-> k1[k2[k]]]

\* the 1-based line of the original source that holds offset off
TrueLine(t, off) == 1 + Count(Slice(t, 0, off), LF)

RECURSIVE MatchStarts(_)
\* the offsets in preprocessed_code of the regex matches, in the order of
\* the hit records: rule by rule, rules that do not compile giving none
MatchStarts(r) ==
    IF r > Len(text_patterns) THEN <<>>
    ELSE (IF Compiles(text_patterns[r].regex)
          THEN FindIter(preprocessed_code, text_patterns[r].regex, 0)
          ELSE <<>>)
         \o MatchStarts(r + 1)

\* the line of the original source on which the i-th match starts
MatchLine(i) ==
    TrueLine(contract_code, KeptOrigin(contract_code)[MatchStarts(1)[i] + 1] - 1)

\* C6: a reported hit never carries a wrong line number: whenever
\* line_number is not -1, the match lies on that line of the original source.
C6_NoWrongLineNumber ==
    Resolved =>
        \A i \in 1..Len(matches) :
            matches[i].line_number # 0 - 1 => matches[i].line_number = MatchLine(i)

\* C7: in a full ContractCodeAnalyzer.analyze run every hit's line number and
\* snippet are computed against the original source, not the stripped copy.
C7_ResolvedAgainstOriginal ==
    pc = "full_run_done" => matches = AnalyzeMatches(preprocessed_code, contract_code)

----------------------------------------------------------------------------
(* Claims on the merge of findings (SpecMerge) *)

\* the lines of the occurrences of a merged Finding
OccurrenceLines(m) == {m.occurrences[k].line_number : k \in 1..Len(m.occurrences)}

\* some merged Finding of pattern p lists both lines
MergedTogether(p, l1, l2) ==
    \E k \in 1..Len(merged_findings) :
        /\ merged_findings[k].pattern_name = p
        /\ {l1, l2} \subseteq OccurrenceLines(merged_findings[k])

\* C8: two hits of the same pattern inside the same function body are merged
\* into one Finding, two hits of the same pattern in different functions give
\* separate Findings; the enclosing function is the nearest declaration found
\* scanning backward from the hit's line.
C8_MergedPerEnclosingFunction ==
    pc = "merged" =>
        \A i, j \in 1..Len(findings) :
            (i < j /\ findings[i].pattern_name = findings[j].pattern_name) =>
                LET fi == _extract_function_name(source_lines, findings[i].line_number)
                    fj == _extract_function_name(source_lines, findings[j].line_number)
                    together == MergedTogether(findings[i].pattern_name,
                                               findings[i].line_number, findings[j].line_number)
                IN  /\ (fi # None /\ fi = fj) => together
                    /\ (fi # None /\ fj # None /\ fi # fj) => ~together

----------------------------------------------------------------------------
(* Claims on the merged report (SpecMerge), continued *)

RECURSIVE OccurrencesOf(_, _, _)
\* occurrences held by the merged Findings labelled p
OccurrencesOf(merged, i, p) ==
    IF i > Len(merged) THEN 0
    ELSE (IF merged[i].pattern_name = p THEN Len(merged[i].occurrences) ELSE 0)
         + OccurrencesOf(merged, i + 1, p)

\* C11: in the report of _generate_report and in the legacy report of
\* _convert_to_legacy_format, every merged Finding has at least one
\* occurrence, the occurrence counts add up to the number of input hits,
\* and pattern_counts[label] is the sum of the occurrence counts of the
\* Findings carrying that label (labels without a Finding have no entry).
C11_OccurrenceCountsAddUp ==
    pc \in {"merged", "report_generated"} =>
        /\ \A k \in 1..Len(merged_findings) : Len(merged_findings[k].occurrences) >= 1
        /\ SumOccurrences(merged_findings, 1) = Len(findings)
        /\ summary.total_issues = Len(findings)
        /\ \A p \in PatternLabels :
              /\ Get(summary.pattern_counts, p) = OccurrencesOf(merged_findings, 1, p)
              /\ p \in Keys(summary.pattern_counts) <=> OccurrencesOf(merged_findings, 1, p) > 0

\* the legacy report of two hits of one pattern on one line: one Finding
\* with two occurrences
C11_Witness ==
    /\ pc = "merged"
    /\ Len(findings) = 2
    /\ Len(merged_findings) = 1

----------------------------------------------------------------------------
(* TokenDataProcessor.process: from the loaded input record to the value   *)
(* it returns, or the exception that leaves it                             *)

\* A text field of the record: absent or empty, whitespace only, or content.
TextKinds == {"", "blank", "content"}

\* `text and text.strip()`
HasContent(text) == text = "content"

\* int(data.get('Runs', '0')) on a numeric and on a non-numeric string
RunsValues == {"200", "abc"}
IsInt(str) == str = "200"

InputRecords == [SourceCode : TextKinds, Bytecode : TextKinds, Runs : RunsValues]

\* Finding of common.types as the bytecode analyzer builds it (it has a
\* severity); the label fixes the severity through malicious_patterns.
BytecodeLabels == {"Balance Manipulation", "Transfer Restriction"}

BytecodeSeverity(label) == IF label = "Balance Manipulation" THEN "high" ELSE "medium"

BytecodeFunctions == {"balanceOf", "transfer"}

BytecodeFinding(pattern_name, function_name) ==
    [ pattern_name |-> pattern_name,
      severity |-> BytecodeSeverity(pattern_name),
      function_name |-> function_name ]

\* finding lists the source patterns / the bytecode patterns can report
SeqsUpTo(S, n) == UNION { [1..k -> S] : k \in 0..n }

SourceFindings(n) ==
    SeqsUpTo({LegacyFinding(p, l) : p \in PatternLabels, l \in 1..MaxLines}, n)

BytecodeFindings(n) ==
    SeqsUpTo({BytecodeFinding(p, f) : p \in BytecodeLabels, f \in BytecodeFunctions}, n)

\* AnalysisReport(analysis_type, results): all_findings and the error
\* texts of its results
AnalysisReport(analysis_type, fs, errors) ==
    [ is_report |-> TRUE, analysis_type |-> analysis_type,
      findings |-> fs, errors |-> errors ]

----------------------------------------------------------------------------
(* Python floats in the risk score.  The weights 0.1, 0.2, 0.3 and 0.8 have *)
(* no finite binary expansion, and int() truncates, so the rounding of the *)
(* float sum decides the score.  A float (IEEE 754 double, never negative  *)
(* and below 2^12 here) is held exactly, as a whole number of units of     *)
(* 2^-56 written in three limbs of 24 bits: hi * 2^48 + mid * 2^24 + lo.   *)

Limb == 16777216      \* 2^24
One == 256            \* 1.0 is 256 * 2^48 units of 2^-56
Significand == 53     \* significant bits of a double

RECURSIVE Pow2(_)
Pow2(n) == IF n = 0 THEN 1 ELSE 2 * Pow2(n - 1)

\* float(k) for a small non-negative integer k
FromInt(k) == [hi |-> k * One, mid |-> 0, lo |-> 0]

\* the double a weight literal denotes; the literal is given in tenths.
\* 0.1 = 0x1.999999999999ap-4 = 0x19 999999 99999a units,
\* 0.2 = 0x1.999999999999ap-3 = 0x33 333333 333334 units,
\* 0.3 = 0x1.3333333333333p-2 = 0x4c cccccc cccccc units,
\* 0.8 = 0x1.999999999999ap-1 = 0xcc cccccc ccccd0 units;
\* a multiple of 0.5 is exact.
Double(tenths) ==
    CASE tenths % 5 = 0 -> [hi |-> (tenths \div 5) * (One \div 2), mid |-> 0, lo |-> 0]
      [] tenths = 1 -> [hi |-> 25, mid |-> 10066329, lo |-> 10066330]
      [] tenths = 2 -> [hi |-> 51, mid |-> 3355443, lo |-> 3355444]
      [] tenths = 3 -> [hi |-> 76, mid |-> 13421772, lo |-> 13421772]
      [] tenths = 8 -> [hi |-> 204, mid |-> 13421772, lo |-> 13421776]

\* the exact sum
ExactAdd(a, b) ==
    LET lo == a.lo + b.lo
        mid == a.mid + b.mid + (lo \div Limb)
    IN  [hi |-> a.hi + b.hi + (mid \div Limb), mid |-> mid % Limb, lo |-> lo % Limb]

\* the exact difference a - b, for a >= b
ExactSub(a, b) ==
    LET lo == a.lo - b.lo
        mid == a.mid - b.mid - (IF lo < 0 THEN 1 ELSE 0)
    IN  [hi |-> a.hi - b.hi - (IF mid < 0 THEN 1 ELSE 0), mid |-> mid % Limb, lo |-> lo % Limb]

\* a <= b
FloatLeq(a, b) ==
    \/ a.hi < b.hi
    \/ a.hi = b.hi /\ a.mid < b.mid
    \/ a.hi = b.hi /\ a.mid = b.mid /\ a.lo <= b.lo

\* the number of bits of a limb
BitLength(n) == CHOOSE k \in 0..24 : n < Pow2(k) /\ (k = 0 \/ n >= Pow2(k - 1))

\* the number of bits of a float's units
Top(a) ==
    IF a.hi > 0 THEN 48 + BitLength(a.hi)
    ELSE IF a.mid > 0 THEN 24 + BitLength(a.mid)
    ELSE BitLength(a.lo)

\* round to nearest, ties to even, at Significand bits: what every float
\* operation does to its exact result.  At most 15 bits are dropped, all of
\* them in the lowest limb.
RoundDouble(a) ==
    LET drop == Top(a) - Significand
    IN  IF drop <= 0 THEN a
        ELSE LET ulp == Pow2(drop)
                 rest == a.lo % ulp
                 kept == [a EXCEPT !.lo = a.lo - rest]
                 odd == (a.lo \div ulp) % 2 = 1
             IN  IF 2 * rest > ulp \/ (2 * rest = ulp /\ odd)
                 THEN ExactAdd(kept, [hi |-> 0, mid |-> 0, lo |-> ulp])
                 ELSE kept

\* a + b, a - b and a * k (k = 2 or 3) on floats
FloatAdd(a, b) == RoundDouble(ExactAdd(a, b))
FloatSub(a, b) == RoundDouble(ExactSub(a, b))
FloatMul(a, k) ==
    RoundDouble(IF k = 2 THEN ExactAdd(a, a) ELSE ExactAdd(a, ExactAdd(a, a)))

\* int(a): the whole part
FloatToInt(a) == a.hi \div One

----------------------------------------------------------------------------
(* The two risk scores *)

\* pattern_weights of TokenDataProcessor.calculate_risk_score, in tenths
pattern_weights_legacy ==
    [ p \in {"Direct Balance Assignment", "Balance Manipulation", "Asymmetric Fee Structure",
             "Reentrancy Vulnerability", "Approve Function Manipulation", "Hidden Minting",
             "Unlimited Token Issuance", "Sell-Path Block", "Contract Pause Abuse",
             "Pausable Exit Block", "Total Supply Manipulation", "Owner Pause Bypass",
             "Permanent Owner Control", "Execution Order Dependency", "Missing Event"} |->
        CASE p = "Direct Balance Assignment" -> 200
          [] p = "Balance Manipulation" -> 180
          [] p = "Asymmetric Fee Structure" -> 150
          [] p = "Reentrancy Vulnerability" -> 100
          [] p = "Approve Function Manipulation" -> 30
          [] p = "Hidden Minting" -> 20
          [] p = "Unlimited Token Issuance" -> 20
          [] p = "Sell-Path Block" -> 15
          [] p = "Contract Pause Abuse" -> 10
          [] p = "Pausable Exit Block" -> 8
          [] p = "Total Supply Manipulation" -> 5
          [] p = "Owner Pause Bypass" -> 3
          [] p = "Permanent Owner Control" -> 2
          [] p = "Execution Order Dependency" -> 1
          [] p = "Missing Event" -> 1 ]

\* the entries that only AnalysisReport._calculate_risk_score has, in tenths
pattern_weights_added ==
    [ p \in {"Self Destruct", "Delegate Call", "Metamorphic Contract", "Unlimited Minting",
             "Transfer Restriction", "Fee Manipulation", "Pause Abuse", "Admin Abuse"} |->
        CASE p = "Self Destruct" -> 80
          [] p = "Delegate Call" -> 60
          [] p = "Metamorphic Contract" -> 50
          [] p = "Unlimited Minting" -> 20
          [] p = "Transfer Restriction" -> 15
          [] p = "Fee Manipulation" -> 15
          [] p = "Pause Abuse" -> 10
          [] p = "Admin Abuse" -> 5 ]

\* pattern_weights of AnalysisReport._calculate_risk_score, in tenths
pattern_weights_report == pattern_weights_legacy @@ pattern_weights_added

RECURSIVE SumWeights_per_hit(_, _, _, _)
\* the loop letting the count in: a label hit more than once adds its
\* weight twice
SumWeights_per_hit(counts, weights, i, total) ==
    IF i > Len(counts) THEN total
    ELSE IF counts[i].key \in DOMAIN weights /\ counts[i].value > 0
         THEN LET weight == Double(weights[counts[i].key])
              IN  SumWeights_per_hit(counts, weights, i + 1,
                      IF counts[i].value > 1
                      THEN FloatAdd(FloatAdd(total, weight), weight)
                      ELSE FloatAdd(total, weight))
         ELSE SumWeights_per_hit(counts, weights, i + 1, total)

RECURSIVE SumWeights(_, _, _, _)
\* for pattern_name, count in pattern_counts.items(): a weighted label with
\* a positive count adds its weight, once
SumWeights(counts, weights, i, total) ==
    IF i > Len(counts) THEN total
    ELSE IF counts[i].key \in DOMAIN weights /\ counts[i].value > 0
         THEN SumWeights(counts, weights, i + 1,
                  FloatAdd(total, Double(weights[counts[i].key])))
         ELSE SumWeights(counts, weights, i + 1, total)

\* total_weighted_issues after the loop, a float
total_weighted_issues(counts, weights) == SumWeights(counts, weights, 1, FromInt(0))

\* score_deduction for a total > 0, before the cap
score_deduction(total) ==
    IF FloatLeq(total, FromInt(5)) THEN FloatMul(total, 3)
    ELSE IF FloatLeq(total, FromInt(15))
         THEN FloatAdd(FromInt(15), FloatMul(FloatSub(total, FromInt(5)), 2))
         ELSE FloatAdd(FromInt(35), FloatMul(FloatSub(total, FromInt(15)), 3))

\* min(80, score_deduction)
CapDeduction(deduction) ==
    IF FloatLeq(FromInt(80), deduction) THEN FromInt(80) ELSE deduction

\* the body shared by _calculate_risk_score and calculate_risk_score:
\* int(100 - min(80, score_deduction)), never below 0
RiskScore(counts, weights) ==
    LET total == total_weighted_issues(counts, weights)
    IN  IF ~FloatLeq(total, FromInt(0))
        THEN Max(0, FloatToInt(FloatSub(FromInt(100), CapDeduction(score_deduction(total)))))
        ELSE 100

\* AnalysisReport._calculate_risk_score
_calculate_risk_score(rep) == RiskScore(pattern_counts(rep.findings), pattern_weights_report)

\* TokenDataProcessor.calculate_risk_score(analysis_result)
calculate_risk_score(legacy) ==
    IF "summary" \notin DOMAIN legacy THEN 100
    ELSE RiskScore(legacy.summary.pattern_counts, pattern_weights_legacy)

Raised(exception) == [outcome |-> "raised", exception |-> exception]

\* AnalysisReport.to_dict: severity_distribution reads finding.severity of
\* every finding, and the findings entry calls finding.to_dict()
to_dict(rep) ==
    IF \E i \in 1..Len(rep.findings) : "severity" \notin DOMAIN rep.findings[i]
    THEN Raised("AttributeError")
    ELSE [ outcome |-> "returned",
           analysis_score |-> _calculate_risk_score(rep),
           analysis_type |-> rep.analysis_type,
           total_issues |-> total_issues(rep.findings),
           pattern_counts |-> pattern_counts(rep.findings),
           findings |-> rep.findings,
           error |-> None ]

\* the legacy dicts: {"error": ..., "summary": ..., "findings": ...}
LegacyDict(error, legacy) ==
    [ is_report |-> FALSE, error |-> error,
      summary |-> legacy.summary, findings |-> legacy.findings ]

EmptyLegacy == [ summary |-> [total_issues |-> 0, pattern_counts |-> EmptyDict],
                 findings |-> <<>> ]

\* f"{finding.pattern_name}:{finding.function_name or finding.selector}"
BytecodeKey(finding) == <<finding.pattern_name, finding.function_name>>

RECURSIVE MergeBytecode(_, _, _)
\* the loop of BytecodeAnalyzer._convert_to_legacy_format
MergeBytecode(fs, i, merged) ==
    IF i > Len(fs) THEN merged
    ELSE LET key == BytecodeKey(fs[i])
             occ == [function_name |-> fs[i].function_name]
             at == {k \in 1..Len(merged) : merged[k].key = key}
         IN  IF at # {}
             THEN LET k == CHOOSE k \in at : TRUE
                  IN  MergeBytecode(fs, i + 1, [merged EXCEPT ![k].occurrences = Append(@, occ)])
             ELSE MergeBytecode(fs, i + 1,
                        Append(merged, [ key |-> key,
                                         pattern_name |-> fs[i].pattern_name,
                                         function_name |-> fs[i].function_name,
                                         occurrences |-> <<occ>> ]))

\* BytecodeAnalyzer._convert_to_legacy_format(report)
_convert_to_legacy_format_bytecode(fs) ==
    [ summary |-> [ total_issues |-> total_issues(fs),
                    pattern_counts |-> pattern_counts(fs) ],
      findings |-> MergeBytecode(fs, 1, <<>>) ]

\* TokenDataProcessor.generate_result, with the analysis_type that the
\* legacy branch of process adds to it
generate_result(analysis) ==
    IF analysis.is_report
    THEN to_dict(analysis)
    ELSE [ outcome |-> "returned",
           analysis_score |-> calculate_risk_score(analysis),
           analysis_type |-> analysis.analysis_type,
           total_issues |-> analysis.summary.total_issues,
           pattern_counts |-> analysis.summary.pattern_counts,
           findings |-> analysis.findings,
           error |-> analysis.error ]

InitProcess ==
    /\ pc = "process_start"
    /\ input_data \in InputRecords
    /\ use_new_architecture \in BOOLEAN
    /\ analysis_result = NoResult
    /\ process_result = NoResult
    /\ ScoreIdle
    /\ AggIdle
    /\ TextIdle
    /\ MergeIdle

ProcUnchanged == UNCHANGED <<input_data, use_new_architecture, scoreVars, aggVars, textVars, mergeVars>>

\* preprocess_data: int(data.get('Runs', '0')) raises ValueError
PreprocessDataRaises ==
    /\ pc = "process_start"
    /\ HasContent(input_data.SourceCode)
    /\ ~IsInt(input_data.Runs)
    /\ process_result' = Raised("ValueError")
    /\ pc' = "process_done"
    /\ UNCHANGED analysis_result
    /\ ProcUnchanged

\* self.analyze(source_code, AnalysisType.SOURCE_CODE): ContractAnalyzer runs
\* its patterns; one that raises leaves a result with an error and no findings
AnalyzeSource ==
    /\ pc = "process_start"
    /\ use_new_architecture
    /\ HasContent(input_data.SourceCode)
    /\ IsInt(input_data.Runs)
    /\ \E fs \in SourceFindings(MaxFindings), errors \in {<<>>, <<"pattern error">>} :
          analysis_result' = AnalysisReport("source_code", fs, errors)
    /\ pc' = "generate_result"
    /\ UNCHANGED process_result
    /\ ProcUnchanged

\* self.analyze(bytecode, AnalysisType.BYTECODE): BytecodeAnalyzer.analyze,
\* whose own except branch gives one error result
AnalyzeBytecode ==
    /\ pc = "process_start"
    /\ use_new_architecture
    /\ ~HasContent(input_data.SourceCode)
    /\ HasContent(input_data.Bytecode)
    /\ \/ \E fs \in BytecodeFindings(MaxFindings) :
             analysis_result' = AnalysisReport("bytecode", fs, <<>>)
       \/ analysis_result' = AnalysisReport("bytecode", <<>>, <<"Bytecode Analysis Error">>)
    /\ pc' = "generate_result"
    /\ UNCHANGED process_result
    /\ ProcUnchanged

\* the except branch of TokenDataProcessor.analyze: the analyzer could not
\* be built or its analyze raised
AnalyzeRaises ==
    /\ pc = "process_start"
    /\ use_new_architecture
    /\ \/ HasContent(input_data.SourceCode) /\ IsInt(input_data.Runs)
          /\ analysis_result' = AnalysisReport("source_code", <<>>, <<"Analysis Error">>)
       \/ ~HasContent(input_data.SourceCode) /\ HasContent(input_data.Bytecode)
          /\ analysis_result' = AnalysisReport("bytecode", <<>>, <<"Analysis Error">>)
    /\ pc' = "generate_result"
    /\ UNCHANGED process_result
    /\ ProcUnchanged

\* no source and no bytecode, new architecture: the "Input Error" report
NoInput ==
    /\ pc = "process_start"
    /\ use_new_architecture
    /\ ~HasContent(input_data.SourceCode)
    /\ ~HasContent(input_data.Bytecode)
    /\ analysis_result' = AnalysisReport("source_code", <<>>, <<"No source code or bytecode found">>)
    /\ pc' = "generate_result"
    /\ UNCHANGED process_result
    /\ ProcUnchanged

\* analyze_with_contract_analyzer: analyze_contract, or the error dict
LegacySource ==
    /\ pc = "process_start"
    /\ ~use_new_architecture
    /\ HasContent(input_data.SourceCode)
    /\ IsInt(input_data.Runs)
    /\ \/ \E fs \in SourceFindings(MaxFindings) :
             analysis_result' = LegacyDict(None, _convert_to_legacy_format(fs))
                                   @@ [analysis_type |-> "source_code"]
       \/ analysis_result' = LegacyDict("exception text", EmptyLegacy) @@ [analysis_type |-> "source_code"]
    /\ pc' = "generate_result"
    /\ UNCHANGED process_result
    /\ ProcUnchanged

\* analyze_with_bytecode_analyzer: analyze_bytecode, or the error dict
LegacyBytecode ==
    /\ pc = "process_start"
    /\ ~use_new_architecture
    /\ ~HasContent(input_data.SourceCode)
    /\ HasContent(input_data.Bytecode)
    /\ \/ \E fs \in BytecodeFindings(MaxFindings) :
             analysis_result' = LegacyDict(None, _convert_to_legacy_format_bytecode(fs))
                                   @@ [analysis_type |-> "bytecode"]
       \/ analysis_result' = LegacyDict("exception text", EmptyLegacy) @@ [analysis_type |-> "bytecode"]
    /\ pc' = "generate_result"
    /\ UNCHANGED process_result
    /\ ProcUnchanged

\* no source and no bytecode, legacy architecture
LegacyNoInput ==
    /\ pc = "process_start"
    /\ ~use_new_architecture
    /\ ~HasContent(input_data.SourceCode)
    /\ ~HasContent(input_data.Bytecode)
    /\ analysis_result' = LegacyDict("No source code or bytecode found", EmptyLegacy)
                             @@ [analysis_type |-> "none"]
    /\ pc' = "generate_result"
    /\ UNCHANGED process_result
    /\ ProcUnchanged

\* return self.generate_result(input_data, analysis_result, source_hash)
GenerateResult ==
    /\ pc = "generate_result"
    /\ process_result' = generate_result(analysis_result)
    /\ pc' = "process_done"
    /\ UNCHANGED analysis_result
    /\ ProcUnchanged

NextProcess ==
    \/ PreprocessDataRaises
    \/ AnalyzeSource
    \/ AnalyzeBytecode
    \/ AnalyzeRaises
    \/ NoInput
    \/ LegacySource
    \/ LegacyBytecode
    \/ LegacyNoInput
    \/ GenerateResult

SpecProcess == InitProcess /\ [][NextProcess]_vars

----------------------------------------------------------------------------
(* The two risk scores on what the source analysis hands over.  The keys *)
(* of pattern_counts are in the order the findings were appended in:     *)
(* ContractAnalyzer.analyze runs its pattern modules in list order, each *)
(* module its detectors in call order, and each label has one detector.  *)

MaxCount == 2      \* most hits of one label

\* Labels of the source analysis, in the order their detectors run; the
\* first has no weight, the second a weight in one table only.
EmitOrder == << "Blacklist System", "Unlimited Minting", "Direct Balance Assignment",
                "Missing Event", "Execution Order Dependency", "Pausable Exit Block" >>

RECURSIVE Emitted(_, _)
\* all_findings when label EmitOrder[i] is hit hits[i] times
Emitted(hits, i) ==
    IF i > Len(EmitOrder) THEN <<>>
    ELSE [k \in 1..hits[i] |-> LegacyFinding(EmitOrder[i], k)] \o Emitted(hits, i + 1)

InitRisk ==
    /\ pc = "risk_start"
    /\ \E hits \in [1..Len(EmitOrder) -> 0..MaxCount] : findings = Emitted(hits, 1)
    /\ source_lines = <<>>
    /\ merged_findings = <<>>
    /\ summary = NoSummary
    /\ ScoreIdle
    /\ AggIdle
    /\ TextIdle
    /\ ProcIdle

\* what both score functions make of one analysis result
Scored(legacy, counts) ==
    [ outcome |-> "scored",
      legacy_score |-> calculate_risk_score(legacy),
      report_score |-> RiskScore(counts, pattern_weights_report) ]

\* analyze_with_contract_analyzer returned analyze_contract's dict
ScoreAnalysis ==
    /\ pc = "risk_start"
    /\ analysis_result' = LegacyDict(None, _convert_to_legacy_format(findings))
    /\ process_result' = Scored(analysis_result', pattern_counts(findings))
    /\ pc' = "risk_done"
    /\ UNCHANGED <<input_data, use_new_architecture, scoreVars, aggVars, textVars, mergeVars>>

\* analyze_with_contract_analyzer caught an exception
ScoreFailedAnalysis ==
    /\ pc = "risk_start"
    /\ analysis_result' = LegacyDict("exception text", EmptyLegacy)
    /\ process_result' = Scored(analysis_result', EmptyLegacy.summary.pattern_counts)
    /\ pc' = "risk_done"
    /\ UNCHANGED <<input_data, use_new_architecture, scoreVars, aggVars, textVars, mergeVars>>

NextRisk ==
    \/ ScoreAnalysis
    \/ ScoreFailedAnalysis

SpecRisk == InitRisk /\ [][NextRisk]_vars

----------------------------------------------------------------------------
(* Claims on TokenDataProcessor.process (SpecProcess) *)

\* C12: process never raises for a loaded input record: every failure
\* inside an analyzer, and every result that contains findings, ends as a
\* returned report value.
C12_ProcessNeverRaises ==
    pc = "process_done" => process_result.outcome = "returned"

\* C13: for an empty or missing source text (and no bytecode to analyse
\* instead) process does not throw: it returns one sentinel report whose
\* score is 0 and which carries an explanatory finding.
C13_EmptySourceGivesSentinel ==
    ( /\ pc = "process_done"
      /\ ~HasContent(input_data.SourceCode)
      /\ ~HasContent(input_data.Bytecode) ) =>
        /\ process_result.outcome = "returned"
        /\ process_result.analysis_score = 0
        /\ Len(process_result.findings) >= 1

----------------------------------------------------------------------------
(* Claims on source text (SpecText), continued *)

BlockOpen == <<"/", "*">>
BlockClose == <<"*", "/">>
LineOpen == <<"/", "/">>

\* C14: when the source holds a /* that no */ closes, _preprocess_code
\* removes everything from that /* to the end of the input.  Stated for a
\* source without // whose first /* is the unclosed one: what is left is
\* the text before it.
C14_UnterminatedBlockRemoved ==
    LET open == Find(contract_code, BlockOpen, 0)
    IN  ( /\ Preprocessed
          /\ Count(contract_code, LineOpen) = 0
          /\ open # 0 - 1
          /\ Find(contract_code, BlockClose, open + 2) = 0 - 1 ) =>
            preprocessed_code = Slice(contract_code, 0, open)

----------------------------------------------------------------------------
(* Claims on ContractCodeAnalyzer.analyze (SpecAnalyze), continued *)

\* every detector returned, none with a hit
NoRuleMatched ==
    /\ pc = "analyze_done"
    /\ \A i \in 1..Len(report.ste_results) :
          ~report.ste_results[i].error /\ report.ste_results[i].matches = <<>>

\* C15: a source in which no rule of any detector matches yields
\* overall_score 0, tier LOW, and a report whose recommendation list holds
\* only the default safe-pattern recommendation.
C15_ZeroMatchReport ==
    NoRuleMatched =>
        /\ report.overall_score = 0
        /\ report.overall_risk = "LOW_RISK"
        /\ "recommendations" \in DOMAIN report
        /\ report.recommendations = <<"no critical pattern detected">>

----------------------------------------------------------------------------
(* Claims on position resolution (SpecText) *)

RECURSIVE MatchSpans(_)
\* the regex matches in preprocessed_code, rule by rule: offset and text
MatchSpans(r) ==
    IF r > Len(text_patterns) THEN <<>>
    ELSE LET regex == text_patterns[r].regex
             starts == IF Compiles(regex) THEN FindIter(preprocessed_code, regex, 0) ELSE <<>>
         IN  [k \in 1..Len(starts) |->
                 [start |-> starts[k],
                  text |-> Slice(preprocessed_code, starts[k],
                                 MatchAt(preprocessed_code, regex, starts[k])),
                  rule |-> text_patterns[r]]]
             \o MatchSpans(r + 1)

\* the text in which positions are looked up
LookupText == CodeForLineNumbers(preprocessed_code, original_code)

\* where the context search finds the i-th match (offset of the match
\* itself), and where the search for the bare match text finds it; -1 if not
StrictPos(i) ==
    LET span == MatchSpans(1)[i]
        before == Slice(preprocessed_code, Max(0, span.start - 30), span.start)
        after == Slice(preprocessed_code, span.start + Len(span.text),
                       Min(Len(preprocessed_code), span.start + Len(span.text) + 30))
        at == Find(LookupText, before \o span.text \o after, 0)
    IN  IF at = 0 - 1 THEN 0 - 1 ELSE at + Len(before)

LoosePos(i) == Find(LookupText, MatchSpans(1)[i].text, 0)

\* C16: every regex match gives exactly one hit record.  The hit is placed
\* by the context search if that finds the text, else by the search for the
\* match text alone; its line_number is -1 exactly when both searches fail,
\* and then its snippet is the match text (cut to 200 characters).
C16_ResolutionOrder ==
    Resolved =>
        /\ Len(matches) = Len(MatchSpans(1))
        /\ \A i \in 1..Len(matches) :
              /\ StrictPos(i) # 0 - 1 =>
                    /\ matches[i].line_number = LineAndText(LookupText, StrictPos(i)).line_number
                    /\ matches[i].matched_text = LineAndText(LookupText, StrictPos(i)).matched_text
              /\ (StrictPos(i) = 0 - 1 /\ LoosePos(i) # 0 - 1) =>
                    /\ matches[i].line_number = LineAndText(LookupText, LoosePos(i)).line_number
                    /\ matches[i].matched_text = LineAndText(LookupText, LoosePos(i)).matched_text
              /\ matches[i].line_number = 0 - 1 <=> (StrictPos(i) = 0 - 1 /\ LoosePos(i) = 0 - 1)
              /\ matches[i].line_number = 0 - 1 => matches[i].matched_text = MatchSpans(1)[i].text

\* a comment removed from inside "x/**/m" leaves the match "xm", which is
\* nowhere in the original: the hit is unresolved
C16_Witness ==
    /\ pc = "with_original_done"
    /\ \E i \in 1..Len(matches) :
          /\ matches[i].line_number = 0 - 1
          /\ matches[i].matched_text = <<"x", "m">>

\* C17: when the context search succeeds, line_number is 1 plus the number
\* of line terminators before the match offset in the text searched, for
\* LF line ends as for CRLF line ends (each CRLF holds one LF).
C17_LineNumberCountsTerminators ==
    Resolved =>
        \A i \in 1..Len(matches) :
            StrictPos(i) # 0 - 1 =>
                matches[i].line_number = 1 + Count(Slice(LookupText, 0, StrictPos(i)), LF)

\* the rules of the table whose regex compiles
WorkingRules == SelectSeq(text_patterns, LAMBDA rule : Compiles(rule.regex))

RECURSIVE HitsOf(_, _)
\* the hits of a table of working rules on the scanned text, rule by rule
HitsOf(rules, k) ==
    IF k > Len(rules) THEN <<>>
    ELSE RuleMatches(rules[k], preprocessed_code, LookupText,
                     FindIter(preprocessed_code, rules[k].regex, 0))
         \o HitsOf(rules, k + 1)

----------------------------------------------------------------------------
(* Claims on single strategies (SpecScore) *)

\* the distinct weights of a hit list
WeightSet(ms) == {ms[i].score : i \in 1..Len(ms)}

RECURSIVE HarmonicSum(_, _)
\* sum over the weights w of S of w / (1 + number of weights of all above w)
HarmonicSum(S, all) ==
    IF S = {} THEN 0
    ELSE LET w == CHOOSE w \in S : TRUE
         IN  (w * Unit) \div (1 + Cardinality({v \in all : v > w}))
             + HarmonicSum(S \ {w}, all)

\* C19: on a non-empty hit list the score of STE0103 is
\* min(100, 20 + sum of w_i / (i + 1)) over the distinct weights in
\* descending order; it is the same for the reversed list and for the list
\* with one of its hits repeated.
C19_RiskAccumulationOnDistinctWeights ==
    (pc = "score_done" /\ ste = "STE0103" /\ matches # <<>>) =>
        /\ final_score
             = Min(100 * Unit, 20 * Unit + HarmonicSum(WeightSet(matches), WeightSet(matches)))
        /\ _calculate_score("STE0103", Reverse(matches)) = final_score
        /\ \A i \in 1..Len(matches) :
              _calculate_score("STE0103", Append(matches, matches[i])) = final_score

\* two hits of one weight, below the cap: the weight counts once
C19_Witness ==
    /\ pc = "score_done"
    /\ ste = "STE0103"
    /\ Len(matches) >= 2
    /\ Cardinality(WeightSet(matches)) = 1
    /\ final_score < 100 * Unit

\* C20: on a non-empty hit list the score of STE0101_1 is
\* min(100, w_max + 0.2 * (sum of the other weights)), whatever the order of
\* the hits; so it is at least min(100, w_max), and a single hit of weight
\* 80 or more gives at least 80.
C20_WeightedMaxDecay ==
    (pc = "score_done" /\ ste = "STE0101_1" /\ matches # <<>>) =>
        LET w_max == CHOOSE w \in WeightSet(matches) : \A v \in WeightSet(matches) : v <= w
            others == SumSeq(Scores(matches)) - w_max
        IN  /\ 5 * final_score = Min(5 * 100 * Unit, 5 * w_max * Unit + others * Unit)
            /\ final_score >= Min(100, w_max) * Unit
            /\ (Len(matches) = 1 /\ w_max >= 80) => final_score >= 80 * Unit
            /\ _calculate_score("STE0101_1", Reverse(matches)) = final_score

\* a small hit listed before the dominant one, below the cap
C20_Witness ==
    /\ pc = "score_done"
    /\ ste = "STE0101_1"
    /\ Len(matches) >= 2
    /\ matches[1].score < matches[2].score
    /\ final_score < 100 * Unit

\* the largest weight of a non-empty hit list
MaxWeight(ms) == CHOOSE w \in WeightSet(ms) : \A v \in WeightSet(ms) : v <= w

\* the hit list without its i-th hit
WithoutHit(ms, i) == SubSeq(ms, 1, i - 1) \o SubSeq(ms, i + 1, Len(ms))

\* C21: the score of STE0101_2 is min(100, sum of all hit weights); adding
\* any hit of its rule table to the list never lowers it, and taking a hit
\* away never raises it.
C21_AdditiveCappedMonotonic ==
    (pc = "score_done" /\ ste = "STE0101_2") =>
        /\ final_score = Min(100, SumSeq(Scores(matches))) * Unit
        /\ \A r \in 1..Len(patterns("STE0101_2")) :
              _calculate_score("STE0101_2", Append(matches, Match("STE0101_2", r)))
                 >= final_score
        /\ \A i \in 1..Len(matches) :
              _calculate_score("STE0101_2", WithoutHit(matches, i)) <= final_score

\* two hits whose weights add up below the cap
C21_Witness ==
    /\ pc = "score_done"
    /\ ste = "STE0101_2"
    /\ Len(matches) = 2
    /\ final_score < 100 * Unit
    /\ final_score > MaxWeight(matches) * Unit

\* C22: on a non-empty hit list the score of STE0104 is
\* min(100, w_max * (1 + 0.1 * (k - 1))), k the number of distinct rules
\* among the hits; repeating a hit of the list leaves the score unchanged.
C22_SeverityBased ==
    (pc = "score_done" /\ ste = "STE0104" /\ matches # <<>>) =>
        LET k == Cardinality(PatternNames(matches))
        IN  /\ 10 * final_score
                  = Min(10 * 100 * Unit, MaxWeight(matches) * Unit * (10 + (k - 1)))
            /\ \A i \in 1..Len(matches) :
                  _calculate_score("STE0104", Append(matches, matches[i])) = final_score

\* a rule hit twice next to another rule, below the cap
C22_Witness ==
    /\ pc = "score_done"
    /\ ste = "STE0104"
    /\ Len(matches) = 3
    /\ Cardinality(PatternNames(matches)) = 2
    /\ final_score < 100 * Unit

\* C23: on every non-empty hit list the score of STE0105 is
\* min(100, 30 + w_max * (1 + 0.1 * k)), k the number of distinct rules
\* among the hits.
C23_RiskWeighted ==
    (pc = "score_done" /\ ste = "STE0105" /\ matches # <<>>) =>
        LET k == Cardinality(PatternNames(matches))
        IN  10 * final_score
               = Min(10 * 100 * Unit,
                     10 * 30 * Unit + MaxWeight(matches) * Unit * (10 + k))

\* hits of one rule, below the cap
C23_Witness ==
    /\ pc = "score_done"
    /\ ste = "STE0105"
    /\ Len(matches) >= 2
    /\ Cardinality(PatternNames(matches)) = 1
    /\ final_score < 100 * Unit

\* the weights of the rule table of detector d
TableWeights(d) == {patterns(d)[r] : r \in 1..Len(patterns(d))}

\* hits of detector d that carry the same weights as the hit list ms
SameWeights(d, ms) ==
    [i \in 1..Len(ms) |->
        Match(d, CHOOSE r \in 1..Len(patterns(d)) : patterns(d)[r] = ms[i].score)]

\* C30: two detectors whose scoring_logic method is "weighted_max" give
\* the same score to hit lists that carry the same weights.
C30_WeightedMaxAgree ==
    (pc = "score_done" /\ scoring_method(ste) = "weighted_max") =>
        \A d \in DetectorIds :
            (/\ scoring_method(d) = "weighted_max"
             /\ WeightSet(matches) \subseteq TableWeights(d))
            => _calculate_score(d, SameWeights(d, matches)) = final_score

----------------------------------------------------------------------------
(* Claims on _preprocess_code (SpecText), continued *)

RECURSIVE OutsideComments(_, _, _)
\* The characters of t from position i on that lie outside every comment,
\* read as a Solidity lexer reads them: in code, // opens a comment that
\* runs up to the line end, /* one that runs up to the next */ (or to the
\* end of the text), and a double quote opens a string literal that runs up
\* to the next double quote or the line end.  mode is "code" or "string".
OutsideComments(t, i, mode) ==
    IF i > Len(t) THEN <<>>
    ELSE IF mode = "string"
         THEN <<t[i]>> \o OutsideComments(t, i + 1,
                              IF t[i] \in {"q", "LF"} THEN "code" ELSE "string")
    ELSE IF i < Len(t) /\ t[i] = "/" /\ t[i + 1] = "/"
         THEN LET stops == {j \in i..Len(t) : t[j] \in {"CR", "LF"}}
              IN  IF stops = {} THEN <<>>
                  ELSE OutsideComments(t, CHOOSE j \in stops : \A k \in stops : j <= k,
                                       "code")
    ELSE IF i < Len(t) /\ t[i] = "/" /\ t[i + 1] = "*"
         THEN IF BlockEnds(t, i) = {} THEN <<>>
              ELSE OutsideComments(
                       t, 2 + (CHOOSE j \in BlockEnds(t, i) : \A k \in BlockEnds(t, i) : j <= k),
                       "code")
    ELSE <<t[i]>> \o OutsideComments(t, i + 1, IF t[i] = "q" THEN "string" ELSE "code")

\* the text without its line terminators
Visible(t) == SelectSeq(t, LAMBDA c : c \notin {"CR", "LF"})

RECURSIVE IsSubsequence(_, _)
\* the characters of a occur in b, in order
IsSubsequence(a, b) ==
    IF a = <<>> THEN TRUE
    ELSE IF b = <<>> THEN FALSE
    ELSE IF Head(a) = Head(b) THEN IsSubsequence(Tail(a), Tail(b))
    ELSE IsSubsequence(a, Tail(b))

\* C26: _preprocess_code removes only comment text: the characters of the
\* source outside every // and /* */ comment (line terminators aside) are
\* all present, in order, in its output.
C26_OnlyCommentsRemoved ==
    (pc = "preprocessed") =>
        IsSubsequence(Visible(OutsideComments(contract_code, 1, "code")),
                      Visible(preprocessed_code))

----------------------------------------------------------------------------
(* Claims on the match span (SpecText) *)

\* C25: every rule declares a maximum match span, and no match reported for
\* the rule is longer than it.
C25_MatchSpanBounded ==
    (pc = "full_run_done") =>
        \A i \in 1..Len(MatchSpans(1)) :
            /\ "max_span" \in DOMAIN MatchSpans(1)[i].rule
            /\ Len(MatchSpans(1)[i].text) <= MatchSpans(1)[i].rule.max_span

----------------------------------------------------------------------------
(* Claims on the line numbers of STE0104 (SpecSTE0104) *)

RECURSIVE MatchStartsIn(_, _)
\* the offsets in code of the regex matches, in the order of the hit records
MatchStartsIn(code, r) ==
    IF r > Len(text_patterns) THEN <<>>
    ELSE (IF Compiles(text_patterns[r].regex)
          THEN FindIter(code, text_patterns[r].regex, 0)
          ELSE <<>>)
         \o MatchStartsIn(code, r + 1)

\* C29: every hit of STE0104 carries the 1-based line of the scanned text on
\* which its match starts, a CRLF counting as one line terminator like an LF.
C29_STE0104LineNumber ==
    (pc = "ste0104_done") =>
        /\ Len(matches) = Len(MatchStartsIn(contract_code, 1))
        /\ \A i \in 1..Len(matches) :
              matches[i].line_number = TrueLine(contract_code, MatchStartsIn(contract_code, 1)[i])

----------------------------------------------------------------------------
(* Claims on the merge of hits without a function (SpecMerge) *)

MergeDone == pc \in {"merged", "report_generated"}

\* the findings without a function that pattern p reports on line l
HitsOn(p, l) ==
    {i \in 1..Len(findings) :
        /\ findings[i].function_name = None
        /\ findings[i].pattern_name = p
        /\ findings[i].line_number = l}

\* the merged entries that hold an occurrence of pattern p on line l
EntriesOn(p, l) ==
    {k \in 1..Len(merged_findings) :
        /\ merged_findings[k].function_name = None
        /\ merged_findings[k].pattern_name = p
        /\ \E o \in 1..Len(merged_findings[k].occurrences) :
              merged_findings[k].occurrences[o].line_number = l}

\* C24: hits without a function are merged only when pattern and line number
\* are both equal: a merged entry without a function holds occurrences of
\* one line only, and the hits of a pattern on a line are all in one entry.
C24_NoFunctionHitsMergeByLine ==
    MergeDone =>
        /\ \A k \in 1..Len(merged_findings) :
              merged_findings[k].function_name = None =>
                  \A o1, o2 \in 1..Len(merged_findings[k].occurrences) :
                      merged_findings[k].occurrences[o1].line_number
                         = merged_findings[k].occurrences[o2].line_number
        /\ \A p \in PatternLabels, l \in 1..Len(source_lines) :
              HitsOn(p, l) # {} =>
                  /\ Cardinality(EntriesOn(p, l)) = 1
                  /\ \A k \in EntriesOn(p, l) :
                        Len(merged_findings[k].occurrences) = Cardinality(HitsOn(p, l))

\* two hits of one pattern on different lines that no function encloses
\* stay two entries
C24_Witness ==
    /\ MergeDone
    /\ Len(findings) = 2
    /\ findings[1].pattern_name = findings[2].pattern_name
    /\ findings[1].line_number # findings[2].line_number
    /\ \A i \in 1..2 :
          /\ findings[i].function_name = None
          /\ _extract_function_name(source_lines, findings[i].line_number) = None
    /\ Len(merged_findings) = 2

----------------------------------------------------------------------------
(* Claims on the two risk scores (SpecRisk) *)

\* C27: TokenDataProcessor.calculate_risk_score and AnalysisReport.risk_score
\* give the same value for the same pattern-count map, whatever labels the
\* analysis emitted.
C27_SameRiskScore ==
    pc = "risk_done" => process_result.legacy_score = process_result.report_score

\* the labels of a pattern-count map that the legacy table weighs and that
\* have a positive count
WeightedPresent(counts) ==
    { counts[i].key : i \in { j \in 1..Len(counts) :
                                /\ counts[j].key \in DOMAIN pattern_weights_legacy
                                /\ counts[j].value > 0 } }

IsWeightedItem(item) == item.key \in DOMAIN pattern_weights_legacy /\ item.value > 0

\* the map that keeps only those labels, each counted once
Presence(counts) ==
    LET kept == SelectSeq(counts, IsWeightedItem)
    IN  [i \in 1..Len(kept) |-> [key |-> kept[i].key, value |-> 1]]

====
